---- MODULE Spec2Model ----
(***************************************************************************)
(* The resumable (continuation based) reader of a segmented message, as    *)
(* implemented in src/src/async.rs.  One action is one call of the decoder *)
(* (read_message, or the resume of a stored continuation); the byte stream *)
(* is the environment and chooses, per call, how many bytes it delivers,   *)
(* in which read sizes, how many reads it interrupts and how it ends.      *)
(*                                                                         *)
(* Numbers: a byte is 0..255.  The 32-bit segment count is kept as two     *)
(* 16-bit halves so that wrapping_add(1) is computed at its real width.    *)
(* Segment lengths are read as integers; the inputs keep them far below    *)
(* 2^31, so sums of them are exact here as they are in a 64-bit usize.     *)
(* SpecSum alone takes lengths up to 2^32 - 1 and adds them as the build   *)
(* does, in 16-bit limbs at the width of its usize.                        *)
(***************************************************************************)
EXTENDS Integers, Sequences, FiniteSets, TLC

VARIABLES
    wire,        \* the bytes the stream holds, in order
    segments,    \* the segments the wire encodes (<<>> for a hand-made table)
    options,     \* ReaderOptions: [traversal_limit_in_words]
    pos,         \* bytes of wire the decoder has taken so far
    result,      \* what the last call returned (tag "None" before the first)
    log,         \* the phases the last call invoked, in order, with returns
    allocs,      \* sizes (in words) of the word buffers the last call allocated
    offer,       \* the stream of the last call: the wire offset its available
                 \* bytes ended at, and what it reported there
    interrupted, \* whether the stream interrupted a read of the last call
    shadow,      \* the last call's outcome on the same stream without its
                 \* interrupted reads
                 \* (the last two are kept by SpecIntr only)
    peer,        \* a second decode, of another message on another stream:
                 \* its wire, segments, options, pos and result
                 \* (kept by SpecPair only)
    call,        \* the call in progress, one stream read at a time: whether
                 \* one is running, its stream, and the phase being run
                 \* (kept by SpecLive only)
    sum          \* the loop of read_segment_table_rest over the lengths of
                 \* the table, one iteration at a time, at the width usize
                 \* has in the build (kept by SpecSum only)

vars == <<wire, segments, options, pos, result, log, allocs, offer,
          interrupted, shadow, peer, call, sum>>

-----------------------------------------------------------------------------
(* Bounds of the model *)

MaxSegs == 3          \* segments per encoded message
MaxStep == 2          \* a resumed call is offered 0..MaxStep bytes, or all
MaxInterrupts == 1    \* interrupted reads before each other read

(* Program constants *)

BYTES_PER_WORD == 8
FIRST_BUF_LEN == 8
SEGMENT_COUNT_BOUND == 512

-----------------------------------------------------------------------------
(* Small helpers *)

Min(a, b) == IF a < b THEN a ELSE b

Zeros(n) == [i \in 1..n |-> 0]

Drop(s, n) == SubSeq(s, n + 1, Len(s))

\* (a faulty variant: the bytes read are put at the start of the
\* buffer, whatever the offset)
Splice_AtStart(buf, idx, data) ==
    [i \in 1..Len(buf) |-> IF i <= Len(data) THEN data[i] ELSE buf[i]]

\* (a faulty variant: the bytes read are put at the offset, and the bytes
\* before the offset are lost)
Splice_Fresh(buf, idx, data) ==
    [i \in 1..Len(buf) |->
        IF i > idx /\ i <= idx + Len(data) THEN data[i - idx] ELSE 0]

\* buf[idx .. idx+Len(data)] = data, the rest of buf unchanged: what the
\* reads of async_read_all leave in the slice &mut buf[idx..]
Splice(buf, idx, data) ==
    [i \in 1..Len(buf) |->
        IF i > idx /\ i <= idx + Len(data) THEN data[i - idx] ELSE buf[i]]

\* <LittleEndian as ByteOrder>::read_u32 of the 4 bytes after offset off
ReadU32(b, off) ==
    b[off + 1] + 256 * b[off + 2] + 65536 * b[off + 3] + 16777216 * b[off + 4]

\* the same 4 bytes as a 32-bit value in two 16-bit halves
ReadU32Halves(b, off) ==
    [lo |-> b[off + 1] + 256 * b[off + 2], hi |-> b[off + 3] + 256 * b[off + 4]]

\* u32::wrapping_add(1)
WrappingAdd1(x) ==
    LET lo1 == (x.lo + 1) % 65536
        hi1 == (x.hi + (IF lo1 = 0 THEN 1 ELSE 0)) % 65536
    IN  [lo |-> lo1, hi |-> hi1]

-----------------------------------------------------------------------------
(* The byte stream (std::io::Read), for the length of one call.            *)
(*   avail  the bytes it can deliver now, in order                         *)
(*   term   what it reports once they are taken: "WouldBlock", "Eof"       *)
(*          (a read of zero bytes) or the kind of another error            *)
(*   chunk  the most bytes one read transfers                              *)
(*   every  interrupted reads it reports before each other read            *)
(*   intr   interrupted reads still to report before the next other read   *)
(*   reads  reads made on it so far, intrs those of them it interrupted     *)

IoErrorKinds == {"ConnectionReset"}

Terms == {"WouldBlock", "Eof"} \cup IoErrorKinds

Stream(avail, term, chunk, every) ==
    [avail |-> avail, term |-> term, chunk |-> chunk, every |-> every,
     intr |-> every, reads |-> 0, intrs |-> 0]

\* one read.read(slice) with a slice of n > 0 bytes
Read(s, n) ==
    LET c == [s EXCEPT !.reads = @ + 1]
    IN  IF s.intr > 0
        THEN [out |-> "Interrupted", data |-> <<>>,
              s |-> [c EXCEPT !.intr = @ - 1, !.intrs = @ + 1]]
        ELSE IF Len(s.avail) > 0
        THEN LET m == Min(n, Min(Len(s.avail), s.chunk))
             IN  [out |-> "Ok", data |-> SubSeq(s.avail, 1, m),
                  s |-> [c EXCEPT !.avail = Drop(@, m), !.intr = s.every]]
        ELSE IF s.term = "Eof"
        THEN [out |-> "Ok", data |-> <<>>, s |-> [c EXCEPT !.intr = s.every]]
        ELSE [out |-> s.term, data |-> <<>>, s |-> [c EXCEPT !.intr = s.every]]

-----------------------------------------------------------------------------
(* async_read_all: fill a slice of n bytes until it is full or the read    *)
(* would block.  got is what has been written so far (idx = Len(got)).     *)

\* met: how the loop ended: "Full", "WouldBlock", "Eof" or the error's kind
Drained(ok, got, err, met, s) ==
    [ok |-> ok, n |-> Len(got), data |-> got, err |-> err, met |-> met,
     s |-> s]

RECURSIVE ReadLoop(_, _, _)
ReadLoop(s, n, got) ==
    IF ~(Len(got) < n)
    THEN Drained(TRUE, got, "", "Full", s)
    ELSE LET r == Read(s, n - Len(got))
         IN  CASE r.out = "Ok" /\ Len(r.data) = 0 ->
                    Drained(FALSE, got, "Premature EOF", "Eof", r.s)
               [] r.out = "Ok" /\ Len(r.data) > 0 ->
                    ReadLoop(r.s, n, got \o r.data)
               [] r.out = "WouldBlock" ->
                    Drained(TRUE, got, "", "WouldBlock", r.s)
               [] r.out = "Interrupted" ->
                    ReadLoop(r.s, n, got)
               [] OTHER ->
                    Drained(FALSE, got, r.out, r.out, r.s)

\* (faulty variants: the same loop with one arm changed.  "EofEnds":
\* a read of zero bytes ends the drain as would-block does; "BlockFails":
\* would-block is returned as an error; "InterruptEnds": an interrupted
\* read ends the drain as would-block does)
RECURSIVE FaultyLoop(_, _, _, _)
FaultyLoop(fault, s, n, got) ==
    IF ~(Len(got) < n)
    THEN Drained(TRUE, got, "", "Full", s)
    ELSE LET r == Read(s, n - Len(got))
         IN  CASE r.out = "Ok" /\ Len(r.data) = 0 ->
                    IF fault = "EofEnds"
                    THEN Drained(TRUE, got, "", "Eof", r.s)
                    ELSE Drained(FALSE, got, "Premature EOF", "Eof", r.s)
               [] r.out = "Ok" /\ Len(r.data) > 0 ->
                    FaultyLoop(fault, r.s, n, got \o r.data)
               [] r.out = "WouldBlock" ->
                    IF fault = "BlockFails"
                    THEN Drained(FALSE, got, "WouldBlock", "WouldBlock", r.s)
                    ELSE Drained(TRUE, got, "", "WouldBlock", r.s)
               [] r.out = "Interrupted" ->
                    IF fault = "InterruptEnds"
                    THEN Drained(TRUE, got, "", "WouldBlock", r.s)
                    ELSE FaultyLoop(fault, r.s, n, got)
               [] OTHER ->
                    Drained(FALSE, got, r.out, r.out, r.s)

async_read_all_EofEnds(s, n) == FaultyLoop("EofEnds", s, n, <<>>)

async_read_all_BlockFails(s, n) == FaultyLoop("BlockFails", s, n, <<>>)

async_read_all_InterruptEnds(s, n) == FaultyLoop("InterruptEnds", s, n, <<>>)

async_read_all(s, n) == ReadLoop(s, n, <<>>)

-----------------------------------------------------------------------------
(* Values returned by the phases and by the decoder *)

\* Vec<Word> of `words` zeroed words; bytes is the filled prefix of its byte
\* view, everything after it is still zero
OwnedSpace(words, bytes) == [words |-> words, bytes |-> bytes]

NoSpace == OwnedSpace(0, <<>>)

NoCont ==
    [tag |-> "None", segment_count |-> 0, first_segment_len |-> 0,
     segment_slices |-> <<>>, buf |-> <<>>, owned_space |-> NoSpace,
     idx |-> 0]

SegmentTableFirst(buf, idx) ==
    [NoCont EXCEPT !.tag = "SegmentTableFirst", !.buf = buf, !.idx = idx]

\* (a faulty variant: the two values of phase 1 change places)
SegmentTableRest_Swapped(segment_count, first_segment_len, buf, idx) ==
    [NoCont EXCEPT !.tag = "SegmentTableRest",
                   !.segment_count = first_segment_len,
                   !.first_segment_len = segment_count,
                   !.buf = buf, !.idx = idx]

SegmentTableRest(segment_count, first_segment_len, buf, idx) ==
    [NoCont EXCEPT !.tag = "SegmentTableRest",
                   !.segment_count = segment_count,
                   !.first_segment_len = first_segment_len,
                   !.buf = buf, !.idx = idx]

Segments(segment_slices, owned_space, idx) ==
    [NoCont EXCEPT !.tag = "Segments", !.segment_slices = segment_slices,
                   !.owned_space = owned_space, !.idx = idx]

NoErr == [kind |-> "None", desc |-> ""]

\* Error::new_decode_error(desc, ..)
DecodeError(desc) == [kind |-> "Decode", desc |-> desc]

\* From<io::Error> for Error: the stream's error, kept as it is
IoError(desc) == [kind |-> "Io", desc |-> desc]

NoMsg == [segment_slices |-> <<>>, owned_space |-> NoSpace, limit |-> 0]

\* OwnedSpaceMessageReader
Message(opts, segment_slices, owned_space) ==
    [segment_slices |-> segment_slices, owned_space |-> owned_space,
     limit |-> opts.traversal_limit_in_words]

NoVal == [segment_count |-> 0, first_segment_len |-> 0, total_words |-> 0,
          segment_slices |-> <<>>]

\* what a phase returns; r is what its async_read_all returned: the stream
\* as the phase left it, how the drain ended and the bytes it read
Ret(tag, val, msg, cont, err, r) ==
    [tag |-> tag, val |-> val, msg |-> msg, cont |-> cont, err |-> err,
     s |-> r.s, met |-> r.met, nread |-> r.n]

Complete(val, msg, r) == Ret("Complete", val, msg, NoCont, NoErr, r)
Continue(cont, r) == Ret("Continue", NoVal, NoMsg, cont, NoErr, r)
Err(err, r) == Ret("Err", NoVal, NoMsg, NoCont, err, r)

-----------------------------------------------------------------------------
(* Phase 1: the first word of the segment table *)

\* (a faulty variant: the bound itself is let through)
TooMany_OffByOne(count) == count.hi > 0 \/ count.lo > SEGMENT_COUNT_BOUND

TooMany(count) == count.hi > 0 \/ count.lo >= SEGMENT_COUNT_BOUND

TooFew(count) == count.hi = 0 /\ count.lo = 0

read_segment_table_first(s, buf, idx0) ==
    LET r == async_read_all(s, Len(buf) - idx0)
    IN  IF ~r.ok THEN Err(IoError(r.err), r)
        ELSE
        LET nbuf == Splice(buf, idx0, r.data)
            idx == idx0 + r.n
            segment_count == WrappingAdd1(ReadU32Halves(nbuf, 0))
            first_segment_len == ReadU32(nbuf, 4)
        IN  IF idx < Len(nbuf)
            THEN Continue(SegmentTableFirst(nbuf, idx), r)
            ELSE IF TooMany(segment_count)
            THEN Err(DecodeError("Too many segments."), r)
            ELSE IF TooFew(segment_count)
            THEN Err(DecodeError("Too few segments."), r)
            ELSE Complete([NoVal EXCEPT
                               !.segment_count = segment_count.lo,
                               !.first_segment_len = first_segment_len],
                          NoMsg, r)

-----------------------------------------------------------------------------
(* Phase 2: the rest of the segment table *)

\* buf.chunks(4): the offsets of the 4-byte chunks of buf
Chunks4(buf) == [i \in 1..(Len(buf) \div 4) |-> 4 * (i - 1)]

\* (a faulty variant: every chunk is taken, the padding too)
Take_All(seq, n) == seq

\* .take(n)
Take(seq, n) == SubSeq(seq, 1, Min(n, Len(seq)))

\* the loop over the chunks: pushes one slice per chunk and adds up
\* total_words.  The chunks are gone through in order, the first half and
\* then, from where it ended, the second half, which keeps the depth of the
\* recursion at the logarithm of their number.  (The test on mid, which
\* never fails, makes the first half be evaluated before the second is
\* entered.)
RECURSIVE PushSlices(_, _, _, _)
PushSlices(buf, offs, slices, total_words) ==
    IF offs = <<>>
    THEN [segment_slices |-> slices, total_words |-> total_words]
    ELSE IF Len(offs) = 1
    THEN LET segment_len == ReadU32(buf, Head(offs))
         IN  [segment_slices |->
                  Append(slices, <<total_words, total_words + segment_len>>),
              total_words |-> total_words + segment_len]
    ELSE LET half == Len(offs) \div 2
             mid == PushSlices(buf, SubSeq(offs, 1, half), slices,
                               total_words)
         IN  IF mid.total_words < total_words THEN mid
             ELSE PushSlices(buf, SubSeq(offs, half + 1, Len(offs)),
                             mid.segment_slices, mid.total_words)

\* (a faulty variant: a total at the limit is refused too)
OverLimit_AtLimit(total_words, opts) ==
    total_words >= opts.traversal_limit_in_words

OverLimit(total_words, opts) == total_words > opts.traversal_limit_in_words

read_segment_table_rest(s, opts, segment_count, first_segment_len, buf, idx0) ==
    LET r == async_read_all(s, Len(buf) - idx0)
    IN  IF ~r.ok THEN Err(IoError(r.err), r)
        ELSE
        LET nbuf == Splice(buf, idx0, r.data)
            idx == idx0 + r.n
            t == PushSlices(nbuf, Take(Chunks4(nbuf), segment_count - 1),
                            << <<0, first_segment_len>> >>, first_segment_len)
        IN  IF idx < Len(nbuf)
            THEN Continue(SegmentTableRest(segment_count, first_segment_len,
                                           nbuf, idx), r)
            ELSE IF OverLimit(t.total_words, opts)
            THEN Err(DecodeError("Message is too large."), r)
            ELSE Complete([NoVal EXCEPT
                               !.total_words = t.total_words,
                               !.segment_slices = t.segment_slices],
                          NoMsg, r)

\* (a faulty variant: room for the lengths, none for the padding)
create_segment_table_buf_NoPad(segment_count) ==
    Zeros(4 * (segment_count - 1))

\* create_segment_table_buf
create_segment_table_buf(segment_count) ==
    Zeros((segment_count \div 2) * 8)

-----------------------------------------------------------------------------
(* Phase 3: the segments *)

\* Word::allocate_zeroed_vec(total_words)
allocate_zeroed_vec(total_words) == OwnedSpace(total_words, <<>>)

\* (a faulty variant: the bytes read are put at the start of the
\* buffer, whatever the offset)
WriteSpace_AtStart(owned_space, idx0, data) ==
    IF data = <<>> THEN owned_space
    ELSE [owned_space EXCEPT !.bytes = data]

\* the byte view of owned_space after the reads wrote data at idx0: bytes
\* before idx0 that were never written are the zeroes of the allocation
WriteSpace(owned_space, idx0, data) ==
    LET old == owned_space.bytes
        kept == IF Len(old) >= idx0 THEN SubSeq(old, 1, idx0)
                ELSE old \o Zeros(idx0 - Len(old))
    IN  IF data = <<>> THEN owned_space
        ELSE [owned_space EXCEPT !.bytes = kept \o data]

\* (a faulty variant: the buffer counts as full when idx reaches its length
\* in words)
read_segments_WordsForBytes(s, opts, segment_slices, owned_space, idx0) ==
    LET r == async_read_all(s, owned_space.words * BYTES_PER_WORD - idx0)
    IN  IF ~r.ok THEN Err(IoError(r.err), r)
        ELSE
        LET nspace == WriteSpace(owned_space, idx0, r.data)
            idx == idx0 + r.n
        IN  IF idx < nspace.words
            THEN Continue(Segments(segment_slices, nspace, idx), r)
            ELSE Complete(NoVal, Message(opts, segment_slices, nspace), r)

\* (a faulty variant: a resumed phase asks the stream for the whole length
\* of the buffer again)
read_segments_WholeBuffer(s, opts, segment_slices, owned_space, idx0) ==
    LET r == async_read_all(s, owned_space.words * BYTES_PER_WORD)
    IN  IF ~r.ok THEN Err(IoError(r.err), r)
        ELSE
        LET nspace == WriteSpace(owned_space, idx0, r.data)
            idx == idx0 + r.n
        IN  IF idx < nspace.words * BYTES_PER_WORD
            THEN Continue(Segments(segment_slices, nspace, idx), r)
            ELSE Complete(NoVal, Message(opts, segment_slices, nspace), r)

read_segments(s, opts, segment_slices, owned_space, idx0) ==
    LET r == async_read_all(s, owned_space.words * BYTES_PER_WORD - idx0)
    IN  IF ~r.ok THEN Err(IoError(r.err), r)
        ELSE
        LET nspace == WriteSpace(owned_space, idx0, r.data)
            idx == idx0 + r.n
        IN  IF idx < nspace.words * BYTES_PER_WORD
            THEN Continue(Segments(segment_slices, nspace, idx), r)
            ELSE Complete(NoVal, Message(opts, segment_slices, nspace), r)

\* MessageReader::get_segment(i) of a finished message, as bytes (i from 0)
get_segment(msg, i) ==
    LET sl == msg.segment_slices[i + 1]
    IN  [k \in 1..((sl[2] - sl[1]) * BYTES_PER_WORD) |->
            LET at == sl[1] * BYTES_PER_WORD + k
            IN  IF at <= Len(msg.owned_space.bytes)
                THEN msg.owned_space.bytes[at] ELSE 0]

-----------------------------------------------------------------------------
(* The decoder: read_message, and the resume of each continuation *)

\* one phase invocation as the log keeps it
\* (slices: the segment slices a Segments phase was called with)
Entry(phase, p, slices) ==
    [phase |-> phase, tag |-> p.tag, val |-> p.val, cont |-> p.cont,
     err |-> p.err, met |-> p.met, noread |-> (p.s.reads = 0),
     slices |-> slices]

\* what one call returns (ret), the phases it invoked (log) and the word
\* buffers it allocated (allocs)
Outcome(ret, lg, al) == [ret |-> ret, log |-> lg, allocs |-> al]

\* (a faulty variant: only an Err is returned at once, a Continue goes on
\* to the rest of the function)
try_async_Through(p, lg, rest) ==
    IF p.tag # "Err" THEN rest ELSE Outcome(p, lg, <<>>)

\* try_async!(p): a Complete hands its value to the rest of the function,
\* a Continue or an Err is returned at once
try_async(p, lg, rest) ==
    IF p.tag = "Complete" THEN rest ELSE Outcome(p, lg, <<>>)

\* a phase starts with the stream as the phase before left it
Rewound(s) == [s EXCEPT !.reads = 0]

\* read_message from the table on: allocate and read the segments
ReadBody(s, opts, total_words, segment_slices, lg) ==
    LET p3 == read_segments(Rewound(s), opts, segment_slices,
                            allocate_zeroed_vec(total_words), 0)
    IN  Outcome(p3, Append(lg, Entry("Segments", p3, segment_slices)),
                <<total_words>>)

\* read_message after read_segment_table_rest returned p2
AfterRest(p2, opts, lg) ==
    try_async(p2, lg,
              ReadBody(p2.s, opts, p2.val.total_words,
                       p2.val.segment_slices, lg))

\* (a faulty variant: no shortcut for a single segment)
AfterFirst_NoShortcut(p1, opts, lg) ==
    try_async(p1, lg,
        LET segment_count == p1.val.segment_count
            first_segment_len == p1.val.first_segment_len
            p2 == read_segment_table_rest(
                      Rewound(p1.s), opts, segment_count, first_segment_len,
                      create_segment_table_buf(segment_count), 0)
        IN  AfterRest(p2, opts,
                      Append(lg, Entry("SegmentTableRest", p2, <<>>))))

\* read_message after read_segment_table_first returned p1
AfterFirst(p1, opts, lg) ==
    try_async(p1, lg,
        LET segment_count == p1.val.segment_count
            first_segment_len == p1.val.first_segment_len
        IN  IF segment_count = 1
            THEN ReadBody(p1.s, opts, first_segment_len,
                          << <<0, first_segment_len>> >>, lg)
            ELSE LET p2 == read_segment_table_rest(
                               Rewound(p1.s), opts, segment_count,
                               first_segment_len,
                               create_segment_table_buf(segment_count), 0)
                 IN  AfterRest(p2, opts,
                               Append(lg, Entry("SegmentTableRest", p2, <<>>))))

read_message(s, opts) ==
    LET p1 == read_segment_table_first(s, Zeros(FIRST_BUF_LEN), 0)
    IN  AfterFirst(p1, opts, <<Entry("SegmentTableFirst", p1, <<>>)>>)

\* the caller's resume: re-invoke the phase the continuation is tagged
\* with, on its buffer and offset, and go on as read_message does
resume_first(s, opts, cont) ==
    LET p1 == read_segment_table_first(s, cont.buf, cont.idx)
    IN  AfterFirst(p1, opts, <<Entry("SegmentTableFirst", p1, <<>>)>>)

resume_rest(s, opts, cont) ==
    LET p2 == read_segment_table_rest(s, opts, cont.segment_count,
                                      cont.first_segment_len, cont.buf,
                                      cont.idx)
    IN  AfterRest(p2, opts, <<Entry("SegmentTableRest", p2, <<>>)>>)

resume_segments(s, opts, cont) ==
    LET p3 == read_segments(s, opts, cont.segment_slices, cont.owned_space,
                            cont.idx)
    IN  Outcome(p3, <<Entry("Segments", p3, cont.segment_slices)>>, <<>>)

-----------------------------------------------------------------------------
(* The wire format, and the inputs of the model *)

\* a 32-bit value as 4 little-endian bytes
LE32(v) ==
    <<v % 256, (v \div 256) % 256, (v \div 65536) % 256,
      (v \div 16777216) % 256>>

RECURSIVE Concat(_)
Concat(seqs) ==
    IF seqs = <<>> THEN <<>>
    ELSE IF Len(seqs) = 1 THEN seqs[1]
    ELSE LET half == Len(seqs) \div 2
         IN  Concat(SubSeq(seqs, 1, half))
                 \o Concat(SubSeq(seqs, half + 1, Len(seqs)))

\* the segment table and the segments of a non-empty list of segments, each
\* a sequence of bytes, 8 per word
Encode(segs) ==
    LET n == Len(segs)
        lens == [i \in 1..n |-> LE32(Len(segs[i]) \div BYTES_PER_WORD)]
        pad == IF n % 2 = 0 THEN <<0, 0, 0, 0>> ELSE <<>>
    IN  LE32(n - 1) \o Concat(lens) \o pad \o Concat(segs)

\* byte k of segment i of the messages tried: distinct and not zero
ByteOf(i, k) == 1 + (((i - 1) * BYTES_PER_WORD + k - 1) % 255)

SegmentOf(i, words) == [k \in 1..(words * BYTES_PER_WORD) |-> ByteOf(i, k)]

\* words per segment of the messages tried
WordCounts == {0, 1}

SegmentLists ==
    UNION {{[i \in 1..n |-> SegmentOf(i, lens[i])] :
               lens \in [1..n -> WordCounts]} : n \in 1..MaxSegs}

\* hand-made first words (count field, first length) at the edges of the
\* count's validation, followed by one more word
RawCounts ==
    {<<0, 0, 0, 0>>, <<1, 0, 0, 0>>, <<254, 1, 0, 0>>, <<255, 1, 0, 0>>,
     <<0, 2, 0, 0>>, <<255, 255, 0, 0>>, <<255, 255, 255, 255>>}

RawFirstLens == {<<0, 0, 0, 0>>, <<0, 0, 0, 1>>}

RawTail == <<1, 0, 0, 0, 0, 0, 0, 0>>

RawWires == {c \o l \o RawTail : c \in RawCounts, l \in RawFirstLens}

\* traversal limits tried: below, at and above the totals of the messages
Limits == {0, 1, MaxSegs}

ReaderOptions(limit) == [traversal_limit_in_words |-> limit]

\* the streams a call can meet with `left` bytes of the wire still unread:
\* the first call is offered any number of them, a resumed call a few of
\* them or all of them
Offers(left, first) ==
    IF first THEN 0..Len(left)
    ELSE {a \in 0..MaxStep : a <= Len(left)} \cup {Len(left)}

StreamsWith(left, first, everies) ==
    {Stream(SubSeq(left, 1, a), t, c, e) :
        a \in Offers(left, first), t \in Terms, c \in {1, Len(wire)},
        e \in everies}

Streams(left, first) == StreamsWith(left, first, 0..MaxInterrupts)

\* those of them that interrupt reads
InterruptingStreams(left, first) ==
    StreamsWith(left, first, 1..MaxInterrupts)

-----------------------------------------------------------------------------
(* The state machine *)

NoResult == [tag |-> "None", msg |-> NoMsg, cont |-> NoCont, err |-> NoErr]

ResultOf(ret) ==
    [tag |-> ret.tag, msg |-> ret.msg, cont |-> ret.cont, err |-> ret.err]

\* what a call that met stream s0 at wire offset p leaves behind
Seen(o, s0, p) ==
    [result |-> ResultOf(o.ret), log |-> o.log, allocs |-> o.allocs,
     pos |-> p + (Len(s0.avail) - Len(o.ret.s.avail))]

NoInterrupts(s) == [s EXCEPT !.every = 0, !.intr = 0]

NoSeen == [result |-> NoResult, log |-> <<>>, allocs |-> <<>>, pos |-> 0]

\* a decode that has not been called yet
Decode(w, segs, opts) ==
    [wire |-> w, segments |-> segs, options |-> opts, pos |-> 0,
     result |-> NoResult]

NoPeer == Decode(<<>>, <<>>, ReaderOptions(0))

\* no loop over a table in progress
NoSum == [pc |-> "none"]

NoCall == [pc |-> "idle", s |-> Stream(<<>>, "WouldBlock", 1, 0),
           from |-> 0, cur |-> NoCont]

InitWith(w, segs, limits) ==
    /\ wire = w
    /\ segments = segs
    /\ options \in {ReaderOptions(l) : l \in limits}
    /\ pos = 0
    /\ result = NoResult
    /\ log = <<>>
    /\ allocs = <<>>
    /\ offer = [end |-> 0, term |-> "None"]
    /\ interrupted = FALSE
    /\ shadow = NoSeen
    /\ call = NoCall
    /\ sum = NoSum

Init ==
    /\ \/ \E segs \in SegmentLists : InitWith(Encode(segs), segs, Limits)
       \/ \E w \in RawWires : InitWith(w, <<>>, {MaxSegs})
    /\ peer = NoPeer

\* the state after a call that met stream s0 and returned o
Returned(s0, o) ==
    /\ pos' = pos + (Len(s0.avail) - Len(o.ret.s.avail))
    /\ result' = ResultOf(o.ret)
    /\ log' = o.log
    /\ allocs' = o.allocs
    /\ offer' = [end |-> pos + Len(s0.avail), term |-> s0.term]
    /\ UNCHANGED <<wire, segments, options>>

\* o0 is the same call on the stream without its interrupted reads
Compared(s0, o, o0) ==
    /\ interrupted' = (o.ret.s.intrs > 0)
    /\ shadow' = Seen(o0, s0, pos)
    /\ UNCHANGED <<peer, call, sum>>

Left == Drop(wire, pos)

ReadMessage ==
    /\ result.tag = "None"
    /\ \E s0 \in Streams(Left, TRUE) :
          Returned(s0, read_message(s0, options))
    /\ UNCHANGED <<interrupted, shadow, peer, call, sum>>

ResumeFirst ==
    /\ result.tag = "Continue"
    /\ result.cont.tag = "SegmentTableFirst"
    /\ \E s0 \in Streams(Left, FALSE) :
          Returned(s0, resume_first(s0, options, result.cont))
    /\ UNCHANGED <<interrupted, shadow, peer, call, sum>>

ResumeRest ==
    /\ result.tag = "Continue"
    /\ result.cont.tag = "SegmentTableRest"
    /\ \E s0 \in Streams(Left, FALSE) :
          Returned(s0, resume_rest(s0, options, result.cont))
    /\ UNCHANGED <<interrupted, shadow, peer, call, sum>>

ResumeSegments ==
    /\ result.tag = "Continue"
    /\ result.cont.tag = "Segments"
    /\ \E s0 \in Streams(Left, FALSE) :
          Returned(s0, resume_segments(s0, options, result.cont))
    /\ UNCHANGED <<interrupted, shadow, peer, call, sum>>

Next == ReadMessage \/ ResumeFirst \/ ResumeRest \/ ResumeSegments

Spec == Init /\ [][Next]_vars

-----------------------------------------------------------------------------
(* The same decoder on streams that interrupt reads, each call compared     *)
(* with the call on the stream without its interrupted reads                *)

ReadMessageI ==
    /\ result.tag = "None"
    /\ \E s0 \in InterruptingStreams(Left, TRUE) :
          /\ Returned(s0, read_message(s0, options))
          /\ Compared(s0, read_message(s0, options),
                      read_message(NoInterrupts(s0), options))

ResumeFirstI ==
    /\ result.tag = "Continue"
    /\ result.cont.tag = "SegmentTableFirst"
    /\ \E s0 \in InterruptingStreams(Left, FALSE) :
          /\ Returned(s0, resume_first(s0, options, result.cont))
          /\ Compared(s0, resume_first(s0, options, result.cont),
                      resume_first(NoInterrupts(s0), options, result.cont))

ResumeRestI ==
    /\ result.tag = "Continue"
    /\ result.cont.tag = "SegmentTableRest"
    /\ \E s0 \in InterruptingStreams(Left, FALSE) :
          /\ Returned(s0, resume_rest(s0, options, result.cont))
          /\ Compared(s0, resume_rest(s0, options, result.cont),
                      resume_rest(NoInterrupts(s0), options, result.cont))

ResumeSegmentsI ==
    /\ result.tag = "Continue"
    /\ result.cont.tag = "Segments"
    /\ \E s0 \in InterruptingStreams(Left, FALSE) :
          /\ Returned(s0, resume_segments(s0, options, result.cont))
          /\ Compared(s0, resume_segments(s0, options, result.cont),
                      resume_segments(NoInterrupts(s0), options, result.cont))

NextIntr == ReadMessageI \/ ResumeFirstI \/ ResumeRestI \/ ResumeSegmentsI

SpecIntr == Init /\ [][NextIntr]_vars

-----------------------------------------------------------------------------
(* The same decoder on a stream that delivers one byte per call and then    *)
(* would block, so that every byte forces a suspend and a resume            *)

ByteStreams(left) ==
    IF left = <<>> THEN {}
    ELSE {Stream(<<Head(left)>>, "WouldBlock", 1, 0)}

InitBytewise ==
    /\ \E segs \in SegmentLists : InitWith(Encode(segs), segs, Limits)
    /\ peer = NoPeer

ReadMessageB ==
    /\ result.tag = "None"
    /\ \E s0 \in ByteStreams(Left) : Returned(s0, read_message(s0, options))
    /\ UNCHANGED <<interrupted, shadow, peer, call, sum>>

ResumeFirstB ==
    /\ result.tag = "Continue"
    /\ result.cont.tag = "SegmentTableFirst"
    /\ \E s0 \in ByteStreams(Left) :
          Returned(s0, resume_first(s0, options, result.cont))
    /\ UNCHANGED <<interrupted, shadow, peer, call, sum>>

ResumeRestB ==
    /\ result.tag = "Continue"
    /\ result.cont.tag = "SegmentTableRest"
    /\ \E s0 \in ByteStreams(Left) :
          Returned(s0, resume_rest(s0, options, result.cont))
    /\ UNCHANGED <<interrupted, shadow, peer, call, sum>>

ResumeSegmentsB ==
    /\ result.tag = "Continue"
    /\ result.cont.tag = "Segments"
    /\ \E s0 \in ByteStreams(Left) :
          Returned(s0, resume_segments(s0, options, result.cont))
    /\ UNCHANGED <<interrupted, shadow, peer, call, sum>>

NextBytewise ==
    ReadMessageB \/ ResumeFirstB \/ ResumeRestB \/ ResumeSegmentsB

SpecBytewise == InitBytewise /\ [][NextBytewise]_vars

-----------------------------------------------------------------------------
(* Two decodes at once: the one of the variables above and the peer, each   *)
(* on its own stream and with its own continuation, called in any order.    *)
(* Every call here is suspended by would-block after the bytes it is        *)
(* offered.                                                                 *)

Decodes == {1, 2}

\* the messages of the peer: other bytes than those of the first decode
PeerLists ==
    {<<SegmentOf(MaxSegs + 1, 1)>>,
     <<SegmentOf(MaxSegs + 1, 1), SegmentOf(MaxSegs + 2, 1)>>}

\* the stream and the options of decode d, and the bytes it has taken
Mine(d) ==
    IF d = 1 THEN [wire |-> wire, options |-> options, pos |-> pos]
    ELSE [wire |-> peer.wire, options |-> peer.options, pos |-> peer.pos]

\* (a faulty variant: both callers hold the one continuation and its buffer)
Stored_Shared(d) == result

\* what the caller of decode d holds: the value last returned to it, with
\* the continuation (and the buffer the continuation owns) if it was
\* suspended
Stored(d) == IF d = 1 THEN result ELSE peer.result

PairStreams(left) ==
    {Stream(SubSeq(left, 1, a), "WouldBlock", Len(left), 0) :
        a \in {b \in {1, MaxStep} : b <= Len(left)} \cup {Len(left)}}

LeftOf(d) == Drop(Mine(d).wire, Mine(d).pos)

InitPair ==
    /\ \E segs \in SegmentLists : InitWith(Encode(segs), segs, Limits)
    /\ \E segs \in PeerLists :
          peer = Decode(Encode(segs), segs, ReaderOptions(MaxSegs))

\* the state after a call of decode d that met stream s0 and returned o
ReturnedTo(d, s0, o) ==
    IF d = 1
    THEN Returned(s0, o) /\ UNCHANGED peer
    ELSE /\ peer' = [peer EXCEPT
                        !.pos = @ + (Len(s0.avail) - Len(o.ret.s.avail)),
                        !.result = ResultOf(o.ret)]
         /\ UNCHANGED <<wire, segments, options, pos, result, log, allocs,
                        offer>>

ReadMessageP(d) ==
    /\ Stored(d).tag = "None"
    /\ \E s0 \in PairStreams(LeftOf(d)) :
          ReturnedTo(d, s0, read_message(s0, Mine(d).options))
    /\ UNCHANGED <<interrupted, shadow, call, sum>>

ResumeFirstP(d) ==
    /\ Stored(d).tag = "Continue"
    /\ Stored(d).cont.tag = "SegmentTableFirst"
    /\ \E s0 \in PairStreams(LeftOf(d)) :
          ReturnedTo(d, s0, resume_first(s0, Mine(d).options, Stored(d).cont))
    /\ UNCHANGED <<interrupted, shadow, call, sum>>

ResumeRestP(d) ==
    /\ Stored(d).tag = "Continue"
    /\ Stored(d).cont.tag = "SegmentTableRest"
    /\ \E s0 \in PairStreams(LeftOf(d)) :
          ReturnedTo(d, s0, resume_rest(s0, Mine(d).options, Stored(d).cont))
    /\ UNCHANGED <<interrupted, shadow, call, sum>>

ResumeSegmentsP(d) ==
    /\ Stored(d).tag = "Continue"
    /\ Stored(d).cont.tag = "Segments"
    /\ \E s0 \in PairStreams(LeftOf(d)) :
          ReturnedTo(d, s0,
                     resume_segments(s0, Mine(d).options, Stored(d).cont))
    /\ UNCHANGED <<interrupted, shadow, call, sum>>

NextPair ==
    \E d \in Decodes :
        \/ ReadMessageP(d)
        \/ ResumeFirstP(d)
        \/ ResumeRestP(d)
        \/ ResumeSegmentsP(d)

SpecPair == InitPair /\ [][NextPair]_vars

-----------------------------------------------------------------------------
(* The same decoder on the tables of every segment count: messages of       *)
(* 2 .. SEGMENT_COUNT_BOUND empty segments, the first call given the first  *)
(* word of the table or all of it, the resume the rest                      *)

EmptySegments(n) == [i \in 1..n |-> <<>>]

WideStreams(left, first) ==
    {Stream(SubSeq(left, 1, a), "WouldBlock", Len(left), 0) :
        a \in (IF first THEN {FIRST_BUF_LEN} ELSE {}) \cup {Len(left)}}

InitWide ==
    /\ \E n \in 2..SEGMENT_COUNT_BOUND :
          InitWith(Encode(EmptySegments(n)), EmptySegments(n), {0})
    /\ peer = NoPeer

ReadMessageW ==
    /\ result.tag = "None"
    /\ \E s0 \in WideStreams(Left, TRUE) :
          Returned(s0, read_message(s0, options))
    /\ UNCHANGED <<interrupted, shadow, peer, call, sum>>

ResumeRestW ==
    /\ result.tag = "Continue"
    /\ result.cont.tag = "SegmentTableRest"
    /\ \E s0 \in WideStreams(Left, FALSE) :
          Returned(s0, resume_rest(s0, options, result.cont))
    /\ UNCHANGED <<interrupted, shadow, peer, call, sum>>

NextWide == ReadMessageW \/ ResumeRestW

SpecWide == InitWide /\ [][NextWide]_vars

-----------------------------------------------------------------------------
(* The same decoder, and the same calls, on a stream that holds a second    *)
(* message right after the first                                            *)

\* the segments of the message that follows
Following2 == <<SegmentOf(MaxSegs + 1, 1)>>

InitTrail ==
    /\ \E segs \in SegmentLists :
          InitWith(Encode(segs) \o Encode(Following2), segs, Limits)
    /\ peer = NoPeer

SpecTrail == InitTrail /\ [][Next]_vars

-----------------------------------------------------------------------------
(* The same decoder one stream read at a time.  A call (read_message, or    *)
(* the resume of the stored continuation) is entered with the stream of     *)
(* the call; then every iteration of the loop of async_read_all and every   *)
(* end of a phase is a step, until the call returns.  `call` holds the      *)
(* position: pc ("idle" between calls, "running" inside one), the stream,   *)
(* from (the position of the stream when the call was made) and cur, the    *)
(* phase being run with its buffer and idx, kept as the continuation the    *)
(* phase would return.                                                      *)

\* the messages tried: one segment and two segments, of one word each and
\* of no word
LiveLists ==
    {[i \in 1..n |-> SegmentOf(i, w)] : n \in 1..2, w \in WordCounts}

\* the streams tried: one that interrupts, delivers byte by byte and then
\* would block, one that delivers in one read and then would block, one
\* that ends and one that fails
LiveKinds ==
    {[term |-> "WouldBlock", chunk |-> 1, every |-> MaxInterrupts],
     [term |-> "WouldBlock", chunk |-> BYTES_PER_WORD, every |-> 0],
     [term |-> "Eof", chunk |-> BYTES_PER_WORD, every |-> 0],
     [term |-> "ConnectionReset", chunk |-> BYTES_PER_WORD, every |-> 0]}

\* a call is offered none of the bytes left, a few of them or all of them
LiveStreams(left) ==
    {Stream(SubSeq(left, 1, a), k.term, k.chunk, k.every) :
        a \in {b \in {0, MaxStep} : b <= Len(left)} \cup {Len(left)},
        k \in LiveKinds}

InitLive ==
    /\ \E segs \in LiveLists : InitWith(Encode(segs), segs, Limits)
    /\ peer = NoPeer

\* a call starts phase cur on stream s0
Enter(cur, s0) ==
    /\ call.pc = "idle"
    /\ call' = [pc |-> "running", s |-> s0, from |-> pos, cur |-> cur]
    /\ offer' = [end |-> pos + Len(s0.avail), term |-> s0.term]
    /\ UNCHANGED <<wire, segments, options, pos, result, log, allocs>>

\* the call returns res
Return(res, s) ==
    /\ result' = res
    /\ call' = [call EXCEPT !.pc = "idle", !.s = s]
    /\ UNCHANGED <<wire, segments, options, pos, log, allocs, offer>>

\* the call goes on with phase cur
GoOn(cur, s, al) ==
    /\ call' = [call EXCEPT !.cur = cur, !.s = s]
    /\ allocs' = allocs \o al
    /\ UNCHANGED <<wire, segments, options, pos, result, log, offer>>

ReturnErr(err, s) ==
    Return([tag |-> "Err", msg |-> NoMsg, cont |-> NoCont, err |-> err], s)

\* (a faulty variant: the bytes are written and idx stays where it was)
Written_NoAdvance(cur, data) ==
    IF cur.tag = "Segments"
    THEN [cur EXCEPT !.owned_space = WriteSpace(@, cur.idx, data)]
    ELSE [cur EXCEPT !.buf = Splice(@, cur.idx, data)]

\* Ok(n) => idx += n, the n bytes being in the slice &mut buf[idx..]
Written(cur, data) ==
    IF cur.tag = "Segments"
    THEN [cur EXCEPT !.owned_space = WriteSpace(@, cur.idx, data),
                     !.idx = @ + Len(data)]
    ELSE [cur EXCEPT !.buf = Splice(@, cur.idx, data),
                     !.idx = @ + Len(data)]

\* buf.len() - idx of the phase being run: the length of the slice read into
Room ==
    IF call.cur.tag = "Segments"
    THEN call.cur.owned_space.words * BYTES_PER_WORD - call.cur.idx
    ELSE Len(call.cur.buf) - call.cur.idx

\* (a faulty variant: the stream is read before idx is tested)
InLoop_ReadFirst == call.pc = "running"

\* while idx < buf.len()
InLoop == call.pc = "running" /\ Room > 0

\* read.read(slice)
TheRead == Read(call.s, Room)

CallReadMessage ==
    /\ result.tag = "None"
    /\ \E s0 \in LiveStreams(Left) :
          Enter(SegmentTableFirst(Zeros(FIRST_BUF_LEN), 0), s0)
    /\ UNCHANGED <<interrupted, shadow, peer, sum>>

CallResume ==
    /\ result.tag = "Continue"
    /\ \E s0 \in LiveStreams(Left) : Enter(result.cont, s0)
    /\ UNCHANGED <<interrupted, shadow, peer, sum>>

\* Ok(n) => idx += n
ReadOk ==
    /\ InLoop
    /\ TheRead.out = "Ok"
    /\ TheRead.data # <<>>
    /\ call' = [call EXCEPT !.s = TheRead.s,
                            !.cur = Written(@, TheRead.data)]
    /\ pos' = pos + Len(TheRead.data)
    /\ UNCHANGED <<wire, segments, options, result, log, allocs, offer,
                   interrupted, shadow, peer, sum>>

\* Ok(n) if n == 0 => return Err("Premature EOF")
ReadZero ==
    /\ InLoop
    /\ TheRead.out = "Ok"
    /\ TheRead.data = <<>>
    /\ ReturnErr(IoError("Premature EOF"), TheRead.s)
    /\ UNCHANGED <<interrupted, shadow, peer, sum>>

\* WouldBlock => break; then idx < buf.len(): return the continuation
ReadWouldBlock ==
    /\ InLoop
    /\ TheRead.out = "WouldBlock"
    /\ Return([tag |-> "Continue", msg |-> NoMsg, cont |-> call.cur,
               err |-> NoErr], TheRead.s)
    /\ UNCHANGED <<interrupted, shadow, peer, sum>>

\* Interrupted => ()
ReadInterrupted ==
    /\ InLoop
    /\ TheRead.out = "Interrupted"
    /\ call' = [call EXCEPT !.s = TheRead.s]
    /\ UNCHANGED <<wire, segments, options, pos, result, log, allocs, offer,
                   interrupted, shadow, peer, sum>>

\* Err(e) => return Err(e)
ReadFailed ==
    /\ InLoop
    /\ TheRead.out \in IoErrorKinds
    /\ ReturnErr(IoError(TheRead.out), TheRead.s)
    /\ UNCHANGED <<interrupted, shadow, peer, sum>>

\* read_segment_table_first with its buffer full, and read_message after it
FirstFull ==
    /\ call.pc = "running"
    /\ call.cur.tag = "SegmentTableFirst"
    /\ Room = 0
    /\ LET segment_count == WrappingAdd1(ReadU32Halves(call.cur.buf, 0))
           first_segment_len == ReadU32(call.cur.buf, 4)
       IN  IF TooMany(segment_count)
           THEN ReturnErr(DecodeError("Too many segments."), call.s)
           ELSE IF TooFew(segment_count)
           THEN ReturnErr(DecodeError("Too few segments."), call.s)
           ELSE IF segment_count.lo = 1
           THEN GoOn(Segments(<< <<0, first_segment_len>> >>,
                              allocate_zeroed_vec(first_segment_len), 0),
                     call.s, <<first_segment_len>>)
           ELSE GoOn(SegmentTableRest(
                         segment_count.lo, first_segment_len,
                         create_segment_table_buf(segment_count.lo), 0),
                     call.s, <<>>)
    /\ UNCHANGED <<interrupted, shadow, peer, sum>>

\* read_segment_table_rest with its buffer full, and read_message after it
RestFull ==
    /\ call.pc = "running"
    /\ call.cur.tag = "SegmentTableRest"
    /\ Room = 0
    /\ LET t == PushSlices(call.cur.buf,
                           Take(Chunks4(call.cur.buf),
                                call.cur.segment_count - 1),
                           << <<0, call.cur.first_segment_len>> >>,
                           call.cur.first_segment_len)
       IN  IF OverLimit(t.total_words, options)
           THEN ReturnErr(DecodeError("Message is too large."), call.s)
           ELSE GoOn(Segments(t.segment_slices,
                              allocate_zeroed_vec(t.total_words), 0),
                     call.s, <<t.total_words>>)
    /\ UNCHANGED <<interrupted, shadow, peer, sum>>

\* read_segments with its buffer full
SegmentsFull ==
    /\ call.pc = "running"
    /\ call.cur.tag = "Segments"
    /\ Room = 0
    /\ Return([tag |-> "Complete",
               msg |-> Message(options, call.cur.segment_slices,
                               call.cur.owned_space),
               cont |-> NoCont, err |-> NoErr], call.s)
    /\ UNCHANGED <<interrupted, shadow, peer, sum>>

\* the steps of a call in progress
Running ==
    \/ ReadOk
    \/ ReadZero
    \/ ReadWouldBlock
    \/ ReadInterrupted
    \/ ReadFailed
    \/ FirstFull
    \/ RestFull
    \/ SegmentsFull

NextLive == CallReadMessage \/ CallResume \/ Running

\* a call made when the stream has bytes to deliver
Delivering ==
    /\ result.tag \in {"None", "Continue"}
    /\ Left # <<>>
    /\ \E s0 \in {s \in LiveStreams(Left) : s.avail # <<>>} :
          Enter(IF result.tag = "None"
                THEN SegmentTableFirst(Zeros(FIRST_BUF_LEN), 0)
                ELSE result.cont, s0)
    /\ UNCHANGED <<interrupted, shadow, peer, sum>>

\* a call in progress runs on; the caller calls again after a suspension,
\* and the stream, as long as it has bytes left, has some for a call again
\* and again
SpecLive ==
    InitLive /\ [][NextLive]_vars /\ WF_vars(Running) /\ SF_vars(Delivering)

-----------------------------------------------------------------------------
(* The loop of read_segment_table_rest over the lengths of a table whose    *)
(* buffer is full, one iteration at a time, with the numbers at their real  *)
(* width.  A number is a sequence of 16-bit limbs, the lowest first: a u32  *)
(* has 2 of them, a u64 has 4, a usize has 2 or 4 as the target of the      *)
(* build has 32-bit or 64-bit pointers.  An addition that overflows usize   *)
(* panics in a build with overflow checks and wraps in one without.  The    *)
(* sums a mathematician would write are kept beside them in 5 limbs, which  *)
(* 511 lengths below 2^32 cannot fill.  Here traversal_limit_in_words, a    *)
(* u64, is held in limbs too.                                               *)

LimbBase == 65536

U32Limbs == 2

U64Limbs == 4

ExactLimbs == 5

\* the limbs usize can have
UsizeLimbs == {U32Limbs, U64Limbs}

\* x as a number of w limbs: the cast `as`, zero-extending or truncating
Resize(x, w) == [i \in 1..w |-> IF i <= Len(x) THEN x[i] ELSE 0]

\* x + y for two numbers of the same limbs: the limbs of the wrapped sum and
\* the carry out of the highest
AddLimbs(x, y) ==
    LET w == Len(x)
        c[i \in 0..w] ==
            IF i = 0 THEN 0 ELSE (x[i] + y[i] + c[i - 1]) \div LimbBase
    IN  [val |-> [i \in 1..w |-> (x[i] + y[i] + c[i - 1]) % LimbBase],
         carry |-> c[w]]

\* x > y for two numbers of the same limbs
Greater(x, y) ==
    \E i \in 1..Len(x) :
        /\ x[i] > y[i]
        /\ \A j \in (i + 1)..Len(x) : x[j] = y[j]

\* the limbs of a 32-bit value read in two halves
LimbsOf(h) == <<h.lo, h.hi>>

\* the 4 bytes of a 32-bit value given in two halves
LE32Halves(h) ==
    <<h.lo % 256, h.lo \div 256, h.hi % 256, h.hi \div 256>>

\* lengths tried: none, one word, the half and the top of the 32-bit range
U32Values ==
    {[lo |-> 0, hi |-> 0], [lo |-> 1, hi |-> 0],
     [lo |-> 0, hi |-> 32768], [lo |-> 65535, hi |-> 65535]}

MaxTable == 3         \* segments per table, each length any of U32Values

\* the tables tried: every table of 2..MaxTable lengths, and the table of
\* the most segments phase 1 accepts, each of the greatest length
Tables ==
    UNION {[1..n -> U32Values] : n \in 2..MaxTable}
    \cup {[i \in 1..(SEGMENT_COUNT_BOUND - 1) |-> [lo |-> 65535, hi |-> 65535]]}

\* the buffer of phase 2 when it is full: the lengths after the first, and
\* the padding
TableRestOf(lens) ==
    LET n == Len(lens)
        rest == Concat([i \in 1..(n - 1) |-> LE32Halves(lens[i + 1])])
    IN  Splice(create_segment_table_buf(n), 0, rest)

\* traversal limits tried, as u64: 0, 1, 2^31, 2^32 - 1 and 2^32
SumLimits ==
    {<<0, 0, 0, 0>>, <<1, 0, 0, 0>>, <<0, 32768, 0, 0>>,
     <<65535, 65535, 0, 0>>, <<0, 0, 1, 0>>}

\* the bytes of a table on the wire
TableOf(lens) ==
    LE32(Len(lens) - 1) \o LE32Halves(lens[1]) \o TableRestOf(lens)

InitSum ==
    /\ \E lens \in Tables : wire = TableOf(lens)
    /\ segments = <<>>
    /\ options \in {ReaderOptions(l) : l \in SumLimits}
    /\ pos = 0
    /\ result = NoResult
    /\ log = <<>>
    /\ allocs = <<>>
    /\ offer = [end |-> 0, term |-> "None"]
    /\ interrupted = FALSE
    /\ shadow = NoSeen
    /\ peer = NoPeer
    /\ call = NoCall
    /\ sum = NoSum

\* segment_slices.push((0, first_segment_len)); total_words =
\* first_segment_len: phase 2 with its buffer full, in a build whose usize
\* has w limbs and whose additions are checked or not
EnterLoop ==
    /\ sum.pc = "none"
    /\ \E w \in UsizeLimbs, checked \in BOOLEAN :
          LET segment_count == WrappingAdd1(ReadU32Halves(wire, 0)).lo
              first_segment_len ==
                  Resize(LimbsOf(ReadU32Halves(wire, 4)), w)
          IN  sum' = [pc |-> "loop", usize |-> w, checked |-> checked,
                      segment_count |-> segment_count,
                      buf |-> Drop(wire, FIRST_BUF_LEN), taken |-> 0,
                      segment_slices |->
                          << <<Resize(<<>>, w), first_segment_len>> >>,
                      total_words |-> first_segment_len,
                      exact |-> Resize(first_segment_len, ExactLimbs),
                      exact_ends |->
                          <<Resize(first_segment_len, ExactLimbs)>>]
    /\ pos' = Len(wire)
    /\ UNCHANGED <<wire, segments, options, result, log, allocs, offer,
                   interrupted, shadow, peer, call>>

\* one iteration of: for chunk in buf.chunks(4).take(segment_count - 1),
\* where segment_len = read_u32(chunk) as usize, the slice pushed is
\* (total_words, total_words + segment_len) and total_words += segment_len
PushSlice ==
    /\ sum.pc = "loop"
    /\ sum.taken < sum.segment_count - 1
    /\ LET segment_len ==
               Resize(LimbsOf(ReadU32Halves(sum.buf, 4 * sum.taken)),
                      sum.usize)
           added == AddLimbs(sum.total_words, segment_len)
           end == added.val
           overflow == added.carry > 0
           exact == AddLimbs(sum.exact, Resize(segment_len, ExactLimbs)).val
       IN  IF sum.checked /\ overflow
           THEN sum' = [sum EXCEPT !.pc = "panicked",
                                   !.exact = exact,
                                   !.exact_ends = Append(@, exact)]
           ELSE sum' = [sum EXCEPT
                           !.taken = @ + 1,
                           !.segment_slices =
                               Append(@, <<sum.total_words, end>>),
                           !.total_words = end,
                           !.exact = exact,
                           !.exact_ends = Append(@, exact)]
    /\ UNCHANGED <<wire, segments, options, pos, result, log, allocs, offer,
                   interrupted, shadow, peer, call>>

\* if total_words as u64 > options.traversal_limit_in_words
CheckLimit ==
    /\ sum.pc = "loop"
    /\ sum.taken = sum.segment_count - 1
    /\ IF Greater(Resize(sum.total_words, U64Limbs),
                  options.traversal_limit_in_words)
       THEN /\ sum' = [sum EXCEPT !.pc = "refused"]
            /\ result' = [tag |-> "Err", msg |-> NoMsg, cont |-> NoCont,
                          err |-> DecodeError("Message is too large.")]
       ELSE /\ sum' = [sum EXCEPT !.pc = "accepted"]
            /\ UNCHANGED result
    /\ UNCHANGED <<wire, segments, options, pos, log, allocs, offer,
                   interrupted, shadow, peer, call>>

NextSum == EnterLoop \/ PushSlice \/ CheckLimit

SpecSum == InitSum /\ [][NextSum]_vars

-----------------------------------------------------------------------------
(* Vocabulary of the properties *)

WellFormed == segments # <<>>

Ended == result.tag \in {"Complete", "Err"}

RECURSIVE SumWords(_)
SumWords(segs) ==
    IF segs = <<>> THEN 0
    ELSE (Len(Head(segs)) \div BYTES_PER_WORD) + SumWords(Tail(segs))

Limit == options.traversal_limit_in_words

\* the finished message holds exactly the segments that were encoded
SameSegments ==
    /\ result.tag = "Complete"
    /\ Len(result.msg.segment_slices) = Len(segments)
    /\ \A i \in 1..Len(segments) :
          get_segment(result.msg, i - 1) = segments[i]

LastEntry == log[Len(log)]

-----------------------------------------------------------------------------
(* C1 *)

\* C1 as stated: every non-empty list of segments, encoded and then decoded
\* one byte and one suspension at a time, ends in a Complete message with
\* the contents of every segment.  (It does not: a list of two or more
\* segments whose total exceeds the traversal limit is refused.)
C1_RoundTripAnyList ==
    /\ pos = Len(wire) => Ended
    /\ Ended => SameSegments

\* C1, amended: a non-empty list of segments whose total number of words is
\* within the traversal limit, encoded and then decoded one byte and one
\* suspension at a time, ends, with its last byte, in a Complete message
\* whose segment i has exactly the contents of the original segment i.
C1_RoundTrip ==
    SumWords(segments) <= Limit =>
        /\ pos = Len(wire) => Ended
        /\ Ended => SameSegments

\* a three-segment message with an empty and a non-empty segment, completed
\* by a resume of the segments phase after a suspension at every byte
C1_Witness ==
    /\ SameSegments
    /\ Len(segments) = 3
    /\ segments[2] = <<>>
    /\ segments[3] # <<>>
    /\ pos = Len(wire)
    /\ Len(log) = 1
    /\ log[1].phase = "Segments"

-----------------------------------------------------------------------------
(* What the wire declares, read off its bytes *)

\* the count field is 0: one segment
SingleSegment == \A i \in 1..4 : wire[i] = 0

\* the count field is 0xFFFFFFFF
CountAllOnes == \A i \in 1..4 : wire[i] = 255

\* the count field is at most 510
CountInRange == wire[3] = 0 /\ wire[4] = 0 /\ wire[1] + 256 * wire[2] <= 510

DeclaredCount == wire[1] + 256 * wire[2] + 1

\* the length of segment i (from 1) as the table declares it
DeclaredLen(i) ==
    wire[4 * i + 1] + 256 * wire[4 * i + 2] + 65536 * wire[4 * i + 3]
        + 16777216 * wire[4 * i + 4]

RECURSIVE DeclaredTotal(_)
DeclaredTotal(n) == IF n = 0 THEN 0 ELSE DeclaredLen(n) + DeclaredTotal(n - 1)

\* the wire offset at which the buffer of a phase starts
PhaseStart(phase) ==
    CASE phase = "SegmentTableFirst" -> 0
      [] phase = "SegmentTableRest" -> 8
      [] phase = "Segments" -> 8 + 8 * (DeclaredCount \div 2)

\* the length of a continuation's buffer, and the bytes filled in it
BufLen(cont) ==
    IF cont.tag = "Segments" THEN cont.owned_space.words * BYTES_PER_WORD
    ELSE Len(cont.buf)

BufByte(cont, k) ==
    IF cont.tag = "Segments"
    THEN IF k <= Len(cont.owned_space.bytes) THEN cont.owned_space.bytes[k]
         ELSE 0
    ELSE cont.buf[k]

-----------------------------------------------------------------------------
(* C2 *)

\* C2: whenever the total declared by an accepted table (of one segment or
\* of several) exceeds the traversal limit, the word buffer is not allocated
\* and the segments phase is not entered.  The code allocates it for a
\* single segment.
C2_LimitBeforeAllocation ==
    /\ \A i \in 1..Len(allocs) : allocs[i] <= Limit
    /\ \A i \in 1..Len(log) :
          log[i].phase = "Segments" =>
              log[i].slices[Len(log[i].slices)][2] <= Limit

-----------------------------------------------------------------------------
(* C3 *)

\* the whole input decoded in one pass
OnePass == read_message(Stream(wire, "Eof", Len(wire), 0), options)

\* the stream failed, or ended before the end of the input
Faulted ==
    /\ result.err.kind = "Io"
    /\ ~(result.err = IoError("Premature EOF") /\ pos = Len(wire))

\* C3: a decode of the input fed in chunks, suspended at would-block after
\* each and resumed from the continuation, ends in the same result
\* (Complete value or error) as the decode of the whole input in one pass.
C3_SuspendResume ==
    (Ended /\ ~Faulted) => result = ResultOf(OnePass.ret)

\* a decode of three segments that was suspended in the table-rest phase
\* and completed by the resume
C3_Witness ==
    /\ result.tag = "Complete"
    /\ Len(result.msg.segment_slices) = 3
    /\ result.msg.owned_space.words > 0
    /\ Len(log) = 2
    /\ log[1].phase = "SegmentTableRest"

-----------------------------------------------------------------------------
(* C4 *)

\* C4: when the stream of a well-formed encoding reports end-of-stream at an
\* offset before the end of the encoding, the decode ends in an error (the
\* premature end-of-stream, or a decode error met before it), never in a
\* Complete message and never in a continuation.
C4_PrematureEof ==
    (WellFormed /\ offer.term = "Eof" /\ offer.end < Len(wire)) =>
        /\ result.tag = "Err"
        /\ \/ result.err = IoError("Premature EOF")
           \/ result.err.kind = "Decode"

\* an encoding cut inside its segments, the end met by a resume
C4_Witness ==
    /\ WellFormed
    /\ offer.term = "Eof"
    /\ offer.end < Len(wire)
    /\ Len(log) = 1
    /\ log[1].phase = "Segments"
    /\ log[1].met = "Eof"
    /\ pos > PhaseStart("Segments")
    /\ result.err = IoError("Premature EOF")

-----------------------------------------------------------------------------
(* C5 *)

\* C5: once the first 8 bytes are read, phase 1 returns Complete(count field
\* + 1, first length) exactly when the count field is at most 510, fails
\* with "too few segments" when it is 0xFFFFFFFF (the count wraps to 0) and
\* with "too many segments" for every other count field (count >= 512).
C5_SegmentCount ==
    \A i \in 1..Len(log) :
        (log[i].phase = "SegmentTableFirst" /\ log[i].met = "Full") =>
            CASE CountAllOnes ->
                    /\ log[i].tag = "Err"
                    /\ log[i].err = DecodeError("Too few segments.")
              [] CountInRange ->
                    /\ log[i].tag = "Complete"
                    /\ log[i].val.segment_count = wire[1] + 256 * wire[2] + 1
                    /\ log[i].val.first_segment_len = DeclaredLen(1)
              [] OTHER ->
                    /\ log[i].tag = "Err"
                    /\ log[i].err = DecodeError("Too many segments.")

\* the count field 510 is accepted as 511 segments
C5_Witness ==
    /\ Len(log) = 2
    /\ log[1].phase = "SegmentTableFirst"
    /\ log[1].tag = "Complete"
    /\ log[1].val.segment_count = 511
    /\ wire[1] = 254
    /\ wire[2] = 1

-----------------------------------------------------------------------------
(* C6 *)

\* C6: on a message of one segment no call invokes the table-rest phase or
\* returns its continuation; the segments phase gets the sole slice
\* (0, first length), and the buffer allocated has first-length words.
C6_SingleSegmentShortcut ==
    SingleSegment =>
        /\ \A i \in 1..Len(log) : log[i].phase # "SegmentTableRest"
        /\ result.cont.tag # "SegmentTableRest"
        /\ \A i \in 1..Len(log) :
              log[i].phase = "Segments" =>
                  log[i].slices = << <<0, DeclaredLen(1)>> >>
        /\ \A i \in 1..Len(allocs) : allocs[i] = DeclaredLen(1)
        /\ result.tag = "Complete" =>
              /\ result.msg.segment_slices = << <<0, DeclaredLen(1)>> >>
              /\ result.msg.owned_space.words = DeclaredLen(1)

\* a message of one non-empty segment decoded by one call
C6_Witness ==
    /\ SingleSegment
    /\ result.tag = "Complete"
    /\ DeclaredLen(1) = 1
    /\ Len(log) = 2
    /\ log[2].phase = "Segments"
    /\ allocs = <<1>>

-----------------------------------------------------------------------------
(* C7 *)

\* the slices cover the declared lengths, in order, from 0, without gaps
SlicesFollowTable(slices) ==
    /\ Len(slices) = DeclaredCount
    /\ slices[1][1] = 0
    /\ \A i \in 1..(Len(slices) - 1) : slices[i][2] = slices[i + 1][1]
    /\ \A i \in 1..Len(slices) : slices[i][2] - slices[i][1] = DeclaredLen(i)

\* C7: whenever the table decode completes, there is one slice per segment,
\* the first starts at 0, each ends where the next starts, each spans the
\* length the wire declares, and total_words is the end of the last one;
\* the padding makes no slice.
C7_SegmentSlices ==
    \A i \in 1..Len(log) :
        /\ (log[i].phase = "SegmentTableRest" /\ log[i].tag = "Complete") =>
              /\ SlicesFollowTable(log[i].val.segment_slices)
              /\ log[i].val.total_words =
                     log[i].val.segment_slices[DeclaredCount][2]
              /\ i < Len(log)
              /\ log[i + 1].slices = log[i].val.segment_slices
        /\ log[i].phase = "Segments" =>
              /\ SlicesFollowTable(log[i].slices)
              /\ allocs # <<>> => allocs = <<log[i].slices[DeclaredCount][2]>>
              /\ log[i].tag = "Continue" =>
                    log[i].cont.owned_space.words
                        = log[i].slices[DeclaredCount][2]

\* a table of two segments (one padding word) completed by phase 2
C7_Witness ==
    /\ Len(log) = 3
    /\ log[2].phase = "SegmentTableRest"
    /\ log[2].tag = "Complete"
    /\ DeclaredCount = 2
    /\ log[2].val.segment_slices = << <<0, 1>>, <<1, 2>> >>
    /\ log[2].val.total_words = 2

-----------------------------------------------------------------------------
(* C8 *)

\* C8: a phase whose drain met would-block returns Ok(Continue), never an
\* Err: the continuation is that phase's, its idx is the number of bytes of
\* the phase's buffer filled so far (the offset it was entered with plus the
\* bytes this call read into it), which is less than the buffer's length,
\* and its buffer holds those bytes, in order, and zeroes after them.
C8_WouldBlockSuspends ==
    \A i \in 1..Len(log) :
        log[i].met = "WouldBlock" =>
            /\ i = Len(log)
            /\ log[i].tag = "Continue"
            /\ result.tag = "Continue"
            /\ result.cont = log[i].cont
            /\ result.cont.tag = log[i].phase
            /\ result.cont.idx = pos - PhaseStart(log[i].phase)
            /\ result.cont.idx < BufLen(result.cont)
            /\ \A k \in 1..Min(BufLen(result.cont), result.cont.idx + 9) :
                  BufByte(result.cont, k) =
                      IF k <= result.cont.idx
                      THEN wire[PhaseStart(log[i].phase) + k] ELSE 0

\* a resume of the table-rest phase that read some more bytes and was
\* suspended again
C8_Witness ==
    /\ Len(log) = 1
    /\ log[1].phase = "SegmentTableRest"
    /\ log[1].met = "WouldBlock"
    /\ result.tag = "Continue"
    /\ result.cont.idx >= 3
    /\ offer.end = pos

-----------------------------------------------------------------------------
(* C9 *)

\* C9: a call on a stream that interrupts reads returns the same result
\* (Continue with the same buffer and count, Complete or error), has invoked
\* the same phases with the same returns and has taken the same bytes as
\* the same call on that stream with the interrupted reads removed.
C9_InterruptedInvisible ==
    shadow = [result |-> result, log |-> log, allocs |-> allocs, pos |-> pos]

\* a resume whose reads were interrupted, suspended again in the segments
C9_Witness ==
    /\ interrupted
    /\ Len(log) = 2
    /\ log[1].phase = "SegmentTableRest"
    /\ result.tag = "Continue"
    /\ result.cont.tag = "Segments"
    /\ result.cont.idx > 0

-----------------------------------------------------------------------------
(* C10 *)

\* the total an accepted table declares, once the table is read
TableRead(i) ==
    \/ /\ log[i].phase = "SegmentTableFirst"
       /\ log[i].tag = "Complete"
       /\ log[i].val.segment_count = 1
    \/ /\ log[i].phase = "SegmentTableRest"
       /\ log[i].met = "Full"

\* the call ended at phase i of the log with error err and no continuation
AbortedAt(i, err) ==
    /\ i = Len(log)
    /\ log[i].tag = "Err"
    /\ log[i].err = err
    /\ result.tag = "Err"
    /\ result.err = err
    /\ result.cont = NoCont

\* C10: whenever a phase meets a stream error other than would-block or
\* interrupted, a premature end-of-stream, a malformed segment count or an
\* oversized total, the call returns that error at once, with no
\* continuation, and no later phase runs.  The code runs the segments phase
\* on the oversized total of a single segment.
C10_ErrorsAbort ==
    \A i \in 1..Len(log) :
        /\ log[i].met \in IoErrorKinds => AbortedAt(i, IoError(log[i].met))
        /\ log[i].met = "Eof" => AbortedAt(i, IoError("Premature EOF"))
        /\ (log[i].phase = "SegmentTableFirst" /\ log[i].met = "Full"
              /\ CountAllOnes) =>
                 AbortedAt(i, DecodeError("Too few segments."))
        /\ (log[i].phase = "SegmentTableFirst" /\ log[i].met = "Full"
              /\ ~CountAllOnes /\ ~CountInRange) =>
                 AbortedAt(i, DecodeError("Too many segments."))
        /\ (TableRead(i) /\ DeclaredTotal(DeclaredCount) > Limit) =>
                 AbortedAt(i, DecodeError("Message is too large."))

-----------------------------------------------------------------------------
(* C11 *)

Rank(phase) ==
    CASE phase = "SegmentTableFirst" -> 1
      [] phase = "SegmentTableRest" -> 2
      [] phase = "Segments" -> 3

\* the phase read_message goes on with after entry e of the log completed
Following(e) ==
    IF e.phase = "SegmentTableFirst" /\ e.val.segment_count > 1
    THEN "SegmentTableRest" ELSE "Segments"

\* the phases of one call: each but the last completed and was followed by
\* the next phase of the order (table-rest only for more than one segment);
\* the call stops at the first phase that does not complete, and returns
\* that phase's continuation if it was suspended; the bytes taken so far
\* end inside the bytes of the last phase invoked
OrderInCall ==
    /\ \A i \in 1..(Len(log) - 1) :
          /\ log[i].tag = "Complete"
          /\ log[i + 1].phase = Following(log[i])
          /\ Rank(log[i + 1].phase) > Rank(log[i].phase)
    /\ log # <<>> =>
          /\ LastEntry.tag = result.tag
          /\ LastEntry.tag = "Complete" => LastEntry.phase = "Segments"
          /\ LastEntry.tag = "Continue" =>
                /\ result.cont.tag = LastEntry.phase
                /\ pos < PhaseStart(LastEntry.phase) + BufLen(result.cont)
          /\ pos >= PhaseStart(LastEntry.phase)
          /\ LastEntry.tag = "Complete" =>
                pos = PhaseStart("Segments")
                         + result.msg.owned_space.words * BYTES_PER_WORD

\* from one call to the next: the first call starts with the table-first
\* phase, a resume re-enters the phase that was suspended and no other, and
\* nothing is called after a Complete or an error
OrderAcrossCalls ==
    /\ ~Ended
    /\ log' # <<>>
    /\ result.tag = "None" => log'[1].phase = "SegmentTableFirst"
    /\ result.tag = "Continue" =>
          /\ log'[1].phase = result.cont.tag
          /\ log'[1].phase = LastEntry.phase
    /\ pos' >= pos

\* C11: in every decode, over any number of suspensions and resumes, the
\* phases run in the order table-first, table-rest (only for more than one
\* segment), segments; a later phase starts only when the earlier one has
\* completed (no byte of it is taken before), a suspended phase returns a
\* continuation of that same phase, and a completed phase is not entered
\* again.
C11_PhaseOrdering == []OrderInCall /\ [][OrderAcrossCalls]_vars

\* a decode of two segments completed by a resume of the segments phase:
\* all three phases have run, over more than one call
C11_Witness ==
    /\ DeclaredCount = 2
    /\ result.tag = "Complete"
    /\ result.msg.owned_space.words = 2
    /\ Len(log) = 1
    /\ log[1].phase = "Segments"
    /\ ~log[1].noread

-----------------------------------------------------------------------------
(* C12 *)

\* what a decode of wire w running alone returns once it has taken the
\* first p bytes and the stream would block
AloneAt(w, opts, p) ==
    ResultOf(read_message(Stream(SubSeq(w, 1, p), "WouldBlock", Len(w), 0),
                          opts).ret)

\* each of the two decodes is where it would be had it run alone
PairAlone ==
    /\ result.tag # "None" => result = AloneAt(wire, options, pos)
    /\ peer.result.tag # "None" =>
          peer.result = AloneAt(peer.wire, peer.options, peer.pos)

\* a step is a step of one of the decodes and leaves the other as it was
OneAtATime ==
    \/ UNCHANGED <<wire, segments, options, pos, result>>
    \/ UNCHANGED peer

\* C12: two decodes, each with its own stream, buffer and continuation,
\* whose calls and resumes are interleaved in any order: each has, after
\* every step, the result (continuation with its buffer and offset,
\* Complete or error) of the same decode running alone, and no step of one
\* changes the buffer, offset or continuation of the other.
C12_IndependentDecodes == []PairAlone /\ [][OneAtATime]_vars

\* both decodes in flight at once, each suspended inside its segments with
\* some of them read
C12_Witness ==
    /\ result.tag = "Continue"
    /\ result.cont.tag = "Segments"
    /\ result.cont.idx > 0
    /\ peer.result.tag = "Continue"
    /\ peer.result.cont.tag = "Segments"
    /\ peer.result.cont.idx > 0
    /\ peer.result.cont.owned_space # result.cont.owned_space

-----------------------------------------------------------------------------
(* C13 *)

\* the byte view of the buffer a finished message owns
SpaceByte(space, k) == IF k <= Len(space.bytes) THEN space.bytes[k] ELSE 0

\* at a suspension the buffer is not full, idx counts the bytes the stream
\* has delivered to the phase, and the buffer holds them in order
ProgressKept ==
    result.tag = "Continue" =>
        LET cont == result.cont
            start == PhaseStart(cont.tag)
        IN  /\ cont.idx >= 0
            /\ cont.idx < BufLen(cont)
            /\ cont.idx = pos - start
            /\ \A k \in 1..cont.idx : BufByte(cont, k) = wire[start + k]

\* a resume of a suspended phase: idx does not go back, it grows by the
\* bytes the resume took, and the bytes below the old idx are as they were,
\* in the next continuation of the phase or in the finished message
ResumeKeeps ==
    result.tag = "Continue" =>
        LET cont == result.cont
        IN  /\ (result'.tag = "Continue" /\ result'.cont.tag = cont.tag) =>
                  /\ result'.cont.idx >= cont.idx
                  /\ result'.cont.idx - cont.idx = pos' - pos
                  /\ BufLen(result'.cont) = BufLen(cont)
                  /\ \A k \in 1..cont.idx :
                        BufByte(result'.cont, k) = BufByte(cont, k)
            /\ (result'.tag = "Complete" /\ cont.tag = "Segments") =>
                  /\ result'.msg.owned_space.words = cont.owned_space.words
                  /\ \A k \in 1..cont.idx :
                        SpaceByte(result'.msg.owned_space, k)
                            = BufByte(cont, k)

\* C13: at every suspension the continuation's idx is less than the length
\* of its buffer and not less than the idx the phase was entered with, the
\* first idx bytes of the buffer are, in order, the bytes the stream has
\* delivered to the phase so far, and a resume writes at idx and after
\* only: the bytes before it stay as they were.
C13_NoRereadNoLoss == []ProgressKept /\ [][ResumeKeeps]_vars

\* a resume of the segments phase suspended again, with more than a resume's
\* step of the segments in the buffer
C13_Witness ==
    /\ Len(log) = 1
    /\ log[1].phase = "Segments"
    /\ ~log[1].noread
    /\ result.tag = "Continue"
    /\ result.cont.idx > MaxStep
    /\ result.cont.owned_space.words = 2

-----------------------------------------------------------------------------
(* C14 *)

\* the buffer of the finished message holds, byte for byte, the whole body
\* of the message on the wire
BufferFilled(msg) ==
    LET n == msg.owned_space.words * BYTES_PER_WORD
    IN  /\ pos = PhaseStart("Segments") + n
        /\ n > 0 => Len(msg.owned_space.bytes) = n
        /\ \A k \in 1..n :
              SpaceByte(msg.owned_space, k) = wire[PhaseStart("Segments") + k]

\* C14: a Complete message is returned only by the segments phase and only
\* when all 8 * total_words bytes of the buffer have been filled from the
\* stream; its slices are those of the table decode and its buffer is the
\* buffer of the decode, of total_words words.  Outside Complete there is
\* no message.
C14_CompleteOnlyWhenFull ==
    /\ result.tag = "Complete" =>
          /\ LastEntry.phase = "Segments"
          /\ LastEntry.met = "Full"
          /\ result.msg.segment_slices = LastEntry.slices
          /\ SlicesFollowTable(result.msg.segment_slices)
          /\ result.msg.owned_space.words = DeclaredTotal(DeclaredCount)
          /\ BufferFilled(result.msg)
    /\ result.tag # "Complete" => result.msg = NoMsg

\* a message of two words completed by a resume that read its last bytes
C14_Witness ==
    /\ result.tag = "Complete"
    /\ result.msg.owned_space.words = 2
    /\ Len(result.msg.owned_space.bytes) = 2 * BYTES_PER_WORD
    /\ Len(log) = 1
    /\ DeclaredCount = 3

-----------------------------------------------------------------------------
(* C15 *)

\* C15: whenever read_segment_table_rest has read all of the remaining
\* table entries, it returns the decode error "Message is too large."
\* exactly when the total the table declares exceeds traversal_limit_in_words
\* and Complete(total_words, slices) exactly when it does not; a total
\* equal to the limit is accepted.
C15_LimitThreshold ==
    \A i \in 1..Len(log) :
        (log[i].phase = "SegmentTableRest" /\ log[i].met = "Full") =>
            IF DeclaredTotal(DeclaredCount) > Limit
            THEN /\ log[i].tag = "Err"
                 /\ log[i].err = DecodeError("Message is too large.")
            ELSE /\ log[i].tag = "Complete"
                 /\ log[i].val.total_words = DeclaredTotal(DeclaredCount)
                 /\ SlicesFollowTable(log[i].val.segment_slices)

\* a table of three segments whose total is exactly the limit, accepted
C15_Witness ==
    /\ Len(log) >= 2
    /\ log[Len(log) - 1].phase = "SegmentTableRest"
    /\ log[Len(log) - 1].tag = "Complete"
    /\ log[Len(log) - 1].val.total_words = Limit
    /\ Limit = MaxSegs
    /\ DeclaredCount = MaxSegs

-----------------------------------------------------------------------------
(* C16 *)

RoundUp8(n) == ((n + 7) \div 8) * 8

\* the size of the buffer for the rest of a table of n segments
TableRestSized(n, len) ==
    /\ len = (n \div 2) * 8
    /\ len = RoundUp8(4 * (n - 1))
    /\ len - 4 * (n - 1) = (IF n % 2 = 0 THEN 4 ELSE 0)
    /\ (FIRST_BUF_LEN + len) % 8 = 0

\* C16: for every segment count from 2 to 511, the buffer made for the rest
\* of the table has (segment_count / 2) * 8 bytes, which is
\* 4 * (segment_count - 1) rounded up to a multiple of 8: the
\* segment_count - 1 lengths and 4 bytes of padding when the count is even,
\* none when it is odd.  The table decode that fills it takes exactly those
\* bytes, makes one slice per segment, and ends on an 8-byte boundary.
C16_TableBufSize ==
    /\ (result.tag = "Continue" /\ result.cont.tag = "SegmentTableRest") =>
          /\ result.cont.segment_count = DeclaredCount
          /\ result.cont.segment_count \in 2..(SEGMENT_COUNT_BOUND - 1)
          /\ TableRestSized(result.cont.segment_count, Len(result.cont.buf))
    /\ \A i \in 1..Len(log) :
          (log[i].phase = "SegmentTableRest" /\ log[i].tag = "Complete") =>
              /\ DeclaredCount \in 2..(SEGMENT_COUNT_BOUND - 1)
              /\ Len(log[i].val.segment_slices) = DeclaredCount
              /\ TableRestSized(DeclaredCount, pos - FIRST_BUF_LEN)
              /\ pos = Len(wire)

\* the table of 510 segments, suspended before its rest: 509 lengths and
\* the padding
C16_Witness ==
    /\ result.tag = "Continue"
    /\ result.cont.tag = "SegmentTableRest"
    /\ result.cont.segment_count = SEGMENT_COUNT_BOUND - 2
    /\ Len(result.cont.buf) = 4 * (SEGMENT_COUNT_BOUND - 2)
    /\ result.cont.idx = 0

-----------------------------------------------------------------------------
(* C17 *)

\* what a continuation carries of the phases before its own
Carried(cont) ==
    [segment_count |-> cont.segment_count,
     first_segment_len |-> cont.first_segment_len,
     segment_slices |-> cont.segment_slices,
     words |-> cont.owned_space.words,
     len |-> BufLen(cont)]

\* the continuation returned holds what the earlier phases produced: what
\* the table on the wire declares, and what the earlier phases of the same
\* call returned
CarriesResults ==
    result.tag = "Continue" =>
        LET cont == result.cont
            n == Len(log)
        IN  /\ cont.tag = "SegmentTableRest" =>
                  /\ cont.segment_count = DeclaredCount
                  /\ cont.first_segment_len = DeclaredLen(1)
                  /\ n > 1 =>
                        /\ log[n - 1].phase = "SegmentTableFirst"
                        /\ cont.segment_count = log[n - 1].val.segment_count
                        /\ cont.first_segment_len
                               = log[n - 1].val.first_segment_len
            /\ cont.tag = "Segments" =>
                  /\ SlicesFollowTable(cont.segment_slices)
                  /\ cont.owned_space.words = DeclaredTotal(DeclaredCount)
                  /\ (n > 1 /\ log[n - 1].phase = "SegmentTableRest") =>
                        /\ cont.segment_slices
                               = log[n - 1].val.segment_slices
                        /\ cont.owned_space.words
                               = log[n - 1].val.total_words
                  /\ (n > 1 /\ log[n - 1].phase = "SegmentTableFirst") =>
                        /\ cont.segment_slices =
                               << <<0, log[n - 1].val.first_segment_len>> >>
                        /\ cont.owned_space.words
                               = log[n - 1].val.first_segment_len

\* from a suspension of a phase to the next suspension of the same phase
\* the carried values do not change
CarriedOver ==
    (/\ result.tag = "Continue"
     /\ result'.tag = "Continue"
     /\ result'.cont.tag = result.cont.tag) =>
        Carried(result'.cont) = Carried(result.cont)

\* C17: a SegmentTableRest continuation holds the segment_count and the
\* first_segment_len phase 1 produced; a Segments continuation holds the
\* slices the table decode produced and a buffer of exactly total_words
\* words; over any number of consecutive suspensions of the same phase
\* these values stay the same.
C17_ContinuationsCarry == []CarriesResults /\ [][CarriedOver]_vars

\* the table-rest phase of a three-segment message suspended again by a
\* resume, still holding the count and the first length of phase 1
C17_Witness ==
    /\ Len(log) = 1
    /\ log[1].phase = "SegmentTableRest"
    /\ result.tag = "Continue"
    /\ result.cont.segment_count = 3
    /\ result.cont.first_segment_len = 1
    /\ result.cont.idx > 0

-----------------------------------------------------------------------------
(* C18 *)

\* the bytes of the table and of the whole message the wire starts with
TableBytes == FIRST_BUF_LEN + (DeclaredCount \div 2) * 8

MessageBytes == TableBytes + BYTES_PER_WORD * DeclaredTotal(DeclaredCount)

\* the decode of what the stream still holds
NextDecode == read_message(Stream(Left, "Eof", Len(wire), 0), options).ret

\* C18: a decode that ends in Complete has taken from the stream, over all
\* its calls, exactly 8 + (segment_count / 2) * 8 + 8 * total_words bytes
\* (no table-rest bytes for one segment); no call takes a byte past the end
\* of the message, so the message that follows on the stream starts at the
\* next unread byte and decodes from there.
C18_ExactConsumption ==
    /\ pos <= MessageBytes
    /\ result.tag = "Complete" =>
          /\ pos = MessageBytes
          /\ DeclaredCount = 1 =>
                pos = FIRST_BUF_LEN + BYTES_PER_WORD * DeclaredLen(1)
          /\ Left = Encode(Following2)
          /\ SumWords(Following2) <= Limit =>
                /\ NextDecode.tag = "Complete"
                /\ get_segment(NextDecode.msg, 0) = Following2[1]

\* a message of three segments completed over several calls, the message
\* after it still whole on the stream
C18_Witness ==
    /\ result.tag = "Complete"
    /\ DeclaredCount = 3
    /\ DeclaredTotal(DeclaredCount) = 2
    /\ Len(log) = 1
    /\ Len(wire) > MessageBytes
    /\ pos = MessageBytes
    /\ SumWords(Following2) <= Limit

-----------------------------------------------------------------------------
(* C19 *)

\* the bytes of the message that phase cur has still to read: what is left
\* of its own buffer, and for the segment table the bytes of the phases
\* after it
Missing(cur) ==
    CASE cur.tag = "SegmentTableFirst" -> MessageBytes - cur.idx
      [] cur.tag = "SegmentTableRest" ->
            MessageBytes - FIRST_BUF_LEN - cur.idx
      [] cur.tag = "Segments" ->
            cur.owned_space.words * BYTES_PER_WORD - cur.idx
      [] OTHER -> 0

\* the reads of the call in progress that were not interrupted
OtherReads == call.s.reads - call.s.intrs

\* a call makes at most one read that was not interrupted for every byte
\* it has read and one more, and the stream interrupts at most `every`
\* times before each of them
ReadsBounded ==
    /\ OtherReads <= (pos - call.from) + 1
    /\ call.s.intrs <= call.s.every * (OtherReads + 1)

\* a read that was not interrupted increases idx, or the call returns a
\* continuation or an error
ReadAdvances ==
    (call.pc = "running" /\ call'.s.reads > call.s.reads
        /\ call'.s.intrs = call.s.intrs)
    => \/ /\ call'.pc = "running"
          /\ call'.cur.tag = call.cur.tag
          /\ call'.cur.idx > call.cur.idx
          /\ Missing(call'.cur) < Missing(call.cur)
       \/ /\ call'.pc = "idle"
          /\ result'.tag \in {"Continue", "Err"}

\* the end of a phase leaves the bytes missing as they were
PhaseKeeps ==
    (call.pc = "running" /\ call'.pc = "running"
        /\ call'.cur.tag # call.cur.tag)
    => Missing(call'.cur) = Missing(call.cur)

\* a resume that returns a continuation again after reading at least one
\* byte returns one with fewer bytes missing, and never one with more
MissingDecreases ==
    (call.pc = "running" /\ call'.pc = "idle" /\ result.tag = "Continue"
        /\ result'.tag = "Continue")
    => /\ Missing(result'.cont) <= Missing(result.cont)
       /\ pos > call.from => Missing(result'.cont) < Missing(result.cont)
       /\ Missing(result'.cont) = Missing(result.cont) - (pos - call.from)

\* a call in progress returns
CallReturns == (call.pc = "running") ~> (call.pc = "idle")

\* the stream reported its end or an error before the message was read
StreamFailed == result.tag = "Err" /\ result.err.kind = "Io"

WithinLimit == SumWords(segments) <= Limit

\* C19 as stated: every call returns after finitely many reads, every read
\* that was not interrupted advancing idx or ending the call; and for any
\* well-formed message the caller that keeps resuming on a stream that
\* delivers all the bytes eventually gets Complete, the bytes missing
\* decreasing at every resume that reads at least one byte.
C19_ProgressAnyMessage ==
    <>(result.tag = "Complete" \/ StreamFailed)

\* C19: every call returns after finitely many reads, every read that was
\* not interrupted advancing idx or ending the call; and for a well-formed
\* message whose total words do not exceed the traversal limit, the caller
\* that keeps resuming on a stream that delivers all the bytes eventually
\* gets Complete, the bytes missing decreasing at every resume that reads
\* at least one byte.
C19_Progress ==
    /\ []ReadsBounded
    /\ [][ReadAdvances /\ PhaseKeeps /\ MissingDecreases]_vars
    /\ CallReturns
    /\ WithinLimit => <>(result.tag = "Complete" \/ StreamFailed)

\* a message of two segments is complete after a resume that read some of
\* its bytes, on a stream that interrupted
C19_Witness ==
    /\ result.tag = "Complete"
    /\ Len(segments) = 2
    /\ WithinLimit
    /\ call.from > 0
    /\ call.from < Len(wire)
    /\ call.s.intrs > 0

-----------------------------------------------------------------------------
(* C20 *)

\* the call in progress is in the segments phase of a message of no word
EmptyBody ==
    /\ call.pc = "running"
    /\ call.cur.tag = "Segments"
    /\ call.cur.owned_space.words = 0

\* the step of the segments phase of a message of no word: the stream is
\* left as it was and the call returns Complete
CompletesUnread ==
    EmptyBody =>
        /\ call'.s = call.s
        /\ pos' = pos
        /\ call'.pc = "idle"
        /\ result'.tag = "Complete"
        /\ result'.msg.owned_space.words = 0
        /\ result'.msg.segment_slices = call.cur.segment_slices

\* a message of no word with its segment table read is Complete or about to
\* be; no continuation is of a segments phase with nothing to read
NoEmptySuspension ==
    /\ (result.tag = "Continue" /\ result.cont.tag = "Segments")
          => result.cont.owned_space.words > 0
    /\ (SumWords(segments) = 0 /\ pos = Len(wire))
          => (result.tag = "Complete" \/ call.pc = "running")
    /\ (SumWords(segments) = 0 /\ result.tag = "Err")
          => pos < Len(wire)

\* C20: for a message whose total_words is 0 the segments phase reads
\* nothing from the stream and returns Complete right after the segment
\* table is decoded, whatever the stream would report next (would-block,
\* its end or an error); it returns neither a Segments continuation nor a
\* premature-EOF error.
C20_EmptyBodyNoRead == []NoEmptySuspension /\ [][CompletesUnread]_vars

\* a message of two empty segments is complete on a stream that has
\* delivered all its bytes and would report its end on the next read
C20_Witness ==
    /\ result.tag = "Complete"
    /\ result.msg.owned_space.words = 0
    /\ Len(result.msg.segment_slices) = 2
    /\ call.s.avail = <<>>
    /\ call.s.term = "Eof"
    /\ pos = Len(wire)

-----------------------------------------------------------------------------
(* C21 *)

\* 511 * (2^32 - 1)
MaxTotal == <<65025, 65535, 510, 0, 0>>

\* the sums written beside the loop never lose a carry and stay within
\* 511 * (2^32 - 1)
ExactInRange ==
    sum.pc # "none" =>
        /\ sum.exact[ExactLimbs] = 0
        /\ ~Greater(sum.exact, MaxTotal)
        /\ sum.segment_count <= SEGMENT_COUNT_BOUND - 1

\* total_words and the ends of the slices are the exact sums, and every
\* slice starts where the one before it ended
SumsExact ==
    sum.pc # "none" =>
        /\ sum.pc # "panicked"
        /\ Resize(sum.total_words, ExactLimbs) = sum.exact
        /\ Len(sum.segment_slices) = Len(sum.exact_ends)
        /\ \A k \in 1..Len(sum.segment_slices) :
              /\ Resize(sum.segment_slices[k][2], ExactLimbs)
                    = sum.exact_ends[k]
              /\ Resize(sum.segment_slices[k][1], ExactLimbs)
                    = (IF k = 1 THEN Resize(<<>>, ExactLimbs)
                       ELSE sum.exact_ends[k - 1])

\* the table is refused exactly when the exact total is over the limit
LimitOnTrueTotal ==
    /\ sum.pc = "refused" =>
          Greater(sum.exact,
                  Resize(options.traversal_limit_in_words, ExactLimbs))
    /\ sum.pc = "accepted" =>
          ~Greater(sum.exact,
                   Resize(options.traversal_limit_in_words, ExactLimbs))

\* C21: for every table accepted by phase 1 (at most 511 segments, each
\* length a 32-bit value) total_words and every slice end of phase 2 are
\* the exact sums, at most 511 * (2^32 - 1); nothing wraps around and the
\* traversal limit is compared with the true total.
C21_NoOverflow == ExactInRange /\ SumsExact /\ LimitOnTrueTotal

\* the same where usize has 64 bits
C21_NoOverflowIn64 == sum.pc # "none" /\ sum.usize = U64Limbs => C21_NoOverflow

\* the table of 511 segments of the greatest length added up in a 64-bit
\* usize, and refused
C21_Witness64 ==
    /\ sum.pc = "refused"
    /\ sum.usize = U64Limbs
    /\ sum.segment_count = SEGMENT_COUNT_BOUND - 1
    /\ sum.exact = MaxTotal


\* a table of two segments whose lengths add up to 2^32 or more is accepted
\* where usize has 32 bits and additions are unchecked: the total has
\* wrapped and is within a limit that the true total exceeds
C21_WrappedTotal ==
    /\ sum.pc = "accepted"
    /\ sum.usize = U32Limbs
    /\ ~sum.checked
    /\ sum.segment_count = 2
    /\ Greater(sum.exact, Resize(options.traversal_limit_in_words, ExactLimbs))
    /\ Resize(sum.total_words, ExactLimbs) # sum.exact

\* the same table where additions are checked: the decoder panics
C21_Panicked ==
    /\ sum.pc = "panicked"
    /\ sum.usize = U32Limbs
    /\ sum.segment_count = 2

====
